---- MODULE Spec2Model ----
(***************************************************************************)
(* Model of the audio pipeline of Rust_visualizer (src/src/audio.rs) and   *)
(* of the controls of src/src/ui.rs that drive it.                         *)
(*                                                                         *)
(* Encodings.                                                              *)
(*  - Option<T>: None is <<>>, Some(x) is <<x>>.                           *)
(*  - A sample is identified by the producer that pushed it and its index  *)
(*    in that producer's stream.  A buffer (VecDeque<f32>) is a sequence   *)
(*    of runs [p, lo, n]: the n consecutive samples lo .. lo+n-1 of        *)
(*    producer p.  Runs are kept merged, so two buffers hold the same      *)
(*    samples in the same order iff their run sequences are equal.         *)
(*  - Instant: last_update holds the time elapsed since the instant it     *)
(*    stores (last_update.elapsed()), in clock units; Instant::now() is 0. *)
(*  - Time: one clock unit is half the analysis timer period.              *)
(*  - f32 magnitudes are fixed-point integers; x * 0.5 is x \div 2.        *)
(*  - A frequency is its position c on a logarithmic grid:                 *)
(*    f = 20 * 10^(c / FreqGrid) Hz.                                       *)
(***************************************************************************)
EXTENDS Integers, Sequences, FiniteSets, TLC

\* ---------------------------------------------------------------- bounds

\* Commands (source selections and seeks) the user issues in one run.
MaxCommands == 2
\* Blocks of samples that may be in flight in one channel.
MaxInFlight == 2
\* Blocks one producer pushes before its stream ends.
MaxBlocks == 3
\* Clock units an anchor may age before the clock stops.
MaxElapsed == 4

\* ------------------------------------------------------- program constants

\* audio.rs:493  let fft_size = 4096;
fft_size == 4096
\* audio.rs:105  Duration::from_secs_f32(1.0 / 60.0), in clock units.
TimerPeriod == 2

\* ------------------------------------------------------------ input sets

\* Files the dialog can return.
Paths == {"a"}
\* Durations the probe reports; 0 is the fallback of a failed probe.
Durations == {0, 3}
\* Values of the speed slider (1.0x, 2.0x).
Speeds == {1, 2}
\* Values of the band slider.
NumBandsChoices == {4, 7, 32}

None == <<>>
Some(x) == <<x>>
IsSome(o) == o # <<>>
Unwrap(o) == o[1]

Min(a, b) == IF a < b THEN a ELSE b
Max(a, b) == IF a > b THEN a ELSE b

\* ---------------------------------------------------------------- buffers

RECURSIVE RLen(_)
\* VecDeque::len
RLen(rs) == IF rs = <<>> THEN 0 ELSE Head(rs).n + RLen(Tail(rs))

RECURSIVE RNorm(_)
\* Canonical form: no empty run, adjacent contiguous runs merged.
RNorm(rs) ==
    IF rs = <<>> THEN <<>>
    ELSE IF Head(rs).n = 0 THEN RNorm(Tail(rs))
    ELSE IF Len(rs) = 1 THEN rs
    ELSE LET a == rs[1]
             b == rs[2]
         IN IF b.n = 0 THEN RNorm(<<a>> \o Tail(Tail(rs)))
            ELSE IF a.p = b.p /\ a.lo + a.n = b.lo
                 THEN RNorm(<<[p |-> a.p, lo |-> a.lo, n |-> a.n + b.n]>> \o Tail(Tail(rs)))
                 ELSE <<a>> \o RNorm(Tail(rs))

RECURSIVE RTake(_, _)
\* iter().copied().take(k).collect()
RTake(rs, k) ==
    IF k = 0 \/ rs = <<>> THEN <<>>
    ELSE LET a == Head(rs)
         IN IF a.n <= k THEN <<a>> \o RTake(Tail(rs), k - a.n)
            ELSE <<[p |-> a.p, lo |-> a.lo, n |-> k]>>

RECURSIVE RDrop(_, _)
\* drain(..k)
RDrop(rs, k) ==
    IF k = 0 \/ rs = <<>> THEN rs
    ELSE LET a == Head(rs)
         IN IF a.n <= k THEN RDrop(Tail(rs), k - a.n)
            ELSE <<[p |-> a.p, lo |-> a.lo + k, n |-> a.n - k]>> \o Tail(rs)

\* An extend that puts the new samples in front of the ones the buffer holds.
ExtendFront(rs, more) == RNorm(more \o rs)

\* extend(): append the samples of `more` in order.
RExtend(rs, more) == RNorm(rs \o more)

\* --------------------------------------------------------------- analysis

\* Resolution of the logarithmic frequency grid (positions per decade).
FreqGrid == 12

\* Frequencies of the bins the FFT returns in [20 Hz, 20 kHz], ascending; the
\* bin count depends on the sample rate.
BinGrid(rate) == IF rate = 44100 THEN <<2, 13, 22, 31, 35>> ELSE <<4, 16, 29, 34>>

\* Magnitude profiles of a window: silence, or energy in every bin.
Profiles == {"silence", "noise"}

\* A steady input: a strong partial in the second bin, a weaker one in the fourth.
ToneMag(i) == IF i = 2 THEN 512 ELSE IF i = 4 THEN 128 ELSE 0

ProfileMag(profile, i, nbins) ==
    IF profile = "silence" THEN 0 ELSE IF profile = "tone" THEN ToneMag(i) ELSE 4

\* spectrum.data(): the (frequency, magnitude) pairs of a window.
SpectrumOf(rate, profile) ==
    LET grid == BinGrid(rate)
    IN [i \in 1..Len(grid) |-> <<grid[i], ProfileMag(profile, i, Len(grid))>>]

\* RMS of the window.
VolumeOf(profile) == IF profile = "silence" THEN 0 ELSE 2

\* freq.val() > band_limits[band], band_limits[i] = 20 * 1000^((i + 1) / n).
ExceedsLimit(c, band, n) == c * n > 3 * FreqGrid * (band + 1)

\* freq.val() > 4000.0, 4000 = 20 * 10^2.30103.
Above4000(c) == c * 100000 > 230103 * FreqGrid

RECURSIVE BandScanCountsEdgeTwice(_, _, _, _, _)
\* A scan that adds a bin that crosses an edge to the band it leaves as well.
BandScanCountsEdgeTwice(spectrum, i, band, bins, n) ==
    IF i > Len(spectrum) THEN bins
    ELSE LET c == spectrum[i][1]
             v == spectrum[i][2]
             b == IF band < n - 1 /\ ExceedsLimit(c, band, n) THEN band + 1 ELSE band
             left == [bins EXCEPT ![band + 1] = @ + (IF b # band THEN v ELSE 0)]
         IN BandScanCountsEdgeTwice(spectrum, i + 1, b, [left EXCEPT ![b + 1] = @ + v], n)

RECURSIVE BandScan(_, _, _, _, _)
\* The scan over spectrum.data(): bins i.. of the spectrum, band is 0-based.
BandScan(spectrum, i, band, bins, n) ==
    IF i > Len(spectrum) THEN bins
    ELSE LET c == spectrum[i][1]
             v == spectrum[i][2]
             b == IF band < n - 1 /\ ExceedsLimit(c, band, n) THEN band + 1 ELSE band
         IN BandScan(spectrum, i + 1, b, [bins EXCEPT ![b + 1] = @ + v], n)

\* new_bins
NewBins(spectrum, n) == BandScan(spectrum, 1, 0, [i \in 1..n |-> 0], n)

RECURSIVE CurrentBands(_, _, _, _)
\* The values current_band takes as the scan handles the bins i.. of the spectrum.
CurrentBands(spectrum, i, band, n) ==
    IF i > Len(spectrum) THEN <<>>
    ELSE LET b == IF band < n - 1 /\ ExceedsLimit(spectrum[i][1], band, n)
                  THEN band + 1 ELSE band
         IN <<b>> \o CurrentBands(spectrum, i + 1, b, n)

RECURSIVE TrebleVal(_, _)
TrebleVal(spectrum, i) ==
    IF i > Len(spectrum) THEN 0
    ELSE (IF Above4000(spectrum[i][1]) THEN spectrum[i][2] ELSE 0) + TrebleVal(spectrum, i + 1)

RECURSIVE SumFrom(_, _, _)
\* iter().skip(from).take(count).sum()
SumFrom(seq, from, count) ==
    IF count = 0 \/ from >= Len(seq) THEN 0
    ELSE seq[from + 1] + SumFrom(seq, from + 1, count - 1)

\* x * smoothing, x * (1.0 - smoothing) with smoothing = 0.5
Half(x) == x \div 2

\* A band that takes the raw value of the window, without history.
SmoothWithoutHistory(old, raw) == raw

Smooth(old, raw) == Half(old) + Half(raw)

\* A resize that only ever grows the vector.
ResizeGrowOnly(seq, n) == [i \in 1..Max(n, Len(seq)) |-> IF i <= Len(seq) THEN seq[i] ELSE 0]

\* Vec::resize(n, 0.0)
Resize(seq, n) == [i \in 1..n |-> IF i <= Len(seq) THEN seq[i] ELSE 0]

ISqrt(x) == CHOOSE r \in 0..x : r * r <= x /\ x < (r + 1) * (r + 1)

RECURSIVE SumSqDiff(_, _, _)
SumSqDiff(cur, prev, i) ==
    IF i > Len(cur) THEN 0
    ELSE (cur[i][2] - prev[i][2]) * (cur[i][2] - prev[i][2]) + SumSqDiff(cur, prev, i + 1)

\* A flux over the bins two spectra share, whatever their bin counts.
FluxOverSharedBins(cur, prev) ==
    IF prev # <<>>
    THEN LET k == Min(Len(cur), Len(prev))
         IN ISqrt(SumSqDiff(SubSeq(cur, 1, k), SubSeq(prev, 1, k), 1))
    ELSE 0

\* Spectral flux against the retained spectrum.
Flux(cur, prev) ==
    IF prev # <<>> /\ Len(prev) = Len(cur) THEN ISqrt(SumSqDiff(cur, prev, 1)) ELSE 0

\* The body of the tick after the spectrum is computed.  The smoothing loop
\* writes frequency_bins[0 .. n-1] in place.
Analyse(aa, spectrum, volume, n) ==
    LET bins == IF Len(aa.frequency_bins) # n THEN Resize(aa.frequency_bins, n)
                ELSE aa.frequency_bins
        raw == NewBins(spectrum, n)
        smoothed == [i \in 1..Len(bins) |-> IF i <= n THEN Smooth(bins[i], raw[i])
                                                    ELSE bins[i]]
    IN [frequency_bins |-> smoothed,
        bass |-> SumFrom(smoothed, 0, n \div 4),
        mid |-> SumFrom(smoothed, n \div 4, n \div 2),
        treble |-> SumFrom(smoothed, (3 * n) \div 4, n),
        treble_average |-> Smooth(aa.treble_average, TrebleVal(spectrum, 1)),
        volume |-> volume,
        flux |-> Flux(spectrum, aa.previous_spectrum),
        previous_spectrum |-> spectrum]

\* ------------------------------------------------------------------ state

VARIABLES
    selected,          \* SelectedAudioSource: [kind, path]
    selected_changed,  \* selected_source.is_changed() as manage_audio_playback sees it
    sink,              \* rodio Sink: [queue, paused, speed]
    mic_stream,        \* MicStream: None or Some(producer)
    analysis_chan,     \* samples in flight in the f32 channel of the tee
    mic_chan,          \* blocks in flight in the Vec<f32> channel of the microphone
    audio_samples,     \* AudioSamples
    mic_buffer,        \* MicAudioBuffer
    audio_info,        \* AudioInfo: None or Some(sample_rate)
    playback_info,     \* PlaybackInfo
    pb_changed,        \* playback_info.is_changed() as apply_playback_changes sees it
    audio_analysis,    \* AudioAnalysis
    num_bands,         \* VisualsConfig::num_bands
    viz_enabled,       \* VisualizationEnabled
    analysis_timer,    \* AnalysisTimer: elapsed part of the current period
    delta,             \* Time::delta of the current frame
    ran,               \* systems of the Update schedule that have run in this frame
    window,            \* samples_slice of the last tick that extracted a window
    tick,              \* how the last run of audio_analysis_system ended
    producers,         \* producers started so far
    commands,          \* user inputs so far
    crashed,           \* a system panicked
    app_state,         \* State<AppState> and NextState<AppState>: [state, next]
    visuals            \* what the renderers of the visualizers have built and drawn

vars == <<selected, selected_changed, sink, mic_stream, analysis_chan, mic_chan,
          audio_samples, mic_buffer, audio_info, playback_info, pb_changed,
          audio_analysis, num_bands, viz_enabled, analysis_timer, delta, ran,
          window, tick, producers, commands, crashed, app_state, visuals>>

Systems == {"read_mic", "read_analysis", "manage", "apply", "update", "analysis", "ui"}

\* The states the run_if of the audio systems lists.
AudioStates ==
    {"Visualization2D", "Visualization3D", "VisualizationOrb", "VisualizationDisc"}

\* The states the run_if of the ui systems lists.
UiStates == AudioStates \cup {"VisualizationIco"}

\* The systems of this model whose run condition holds in app state st.
ScheduledIn(st) ==
    IF st \in AudioStates THEN Systems
    ELSE IF st \in UiStates THEN {"ui"}
    ELSE {}

\* The systems of the 2D, 3D and orb visualizers that build or draw one element per band.
Renderers ==
    {"manage_bar_chart", "update_2d_visuals", "manage_voxel_grid",
     "update_column_materials", "update_cube_transforms", "spawn_orb_projectiles"}

\* The renderers whose in_state condition holds in app state st.
RenderersIn(st) ==
    IF st = "Visualization2D" THEN {"manage_bar_chart", "update_2d_visuals"}
    ELSE IF st = "Visualization3D"
         THEN {"manage_voxel_grid", "update_column_materials", "update_cube_transforms"}
    ELSE IF st = "VisualizationOrb" THEN {"spawn_orb_projectiles"}
    ELSE {}

\* config.bass_sensitivity in tenths, at the lower end of its slider (0.1..=10.0).
bass_sensitivity == 1
\* Timer::from_seconds(0.1, TimerMode::Once), in clock units.
CooldownTime == 12
\* custom_size of a bar as spawned: Vec2::new(bar_width, 50.0).
BarHeight == 50
\* transform.scale.y of a cube as spawned, in hundredths.
UnitScale == 100
\* Values of config.orb_activation_threshold, in the unit of the magnitudes.
OrbThresholds == {1, 2}

\* The visuals after OnExit of the state left and OnEnter of state st with n bands
\* configured: no bar, no cube, no column material, default BarChartState and
\* VoxelGridState; setup_orb builds one direction and one cooldown per band.
\*   ran             renderers that have run in this frame
\*   config_changed  config.is_changed() as manage_bar_chart sees it
\*   bars            height of the bar of each VizBar.index
\*   grid_bands      VoxelGridState::num_bands
\*   materials       emissive glow of each column material, in hundredths
\*   cubes           scale.y of the cubes of each column, in hundredths
\*   spread          spread factor of the cubes, in tenths
\*   directions      OrbProjetileInfo::directions.len()
\*   cooldowns       elapsed time of each cooldown
\*   fired           bands a projectile was spawned for in the last run
VisualsOnEnter(st, n) ==
    [ran |-> {}, config_changed |-> TRUE, bars |-> <<>>, grid_bands |-> 0,
     materials |-> <<>>, cubes |-> <<>>, spread |-> 10,
     directions |-> IF st = "VisualizationOrb" THEN n ELSE 0,
     cooldowns |-> IF st = "VisualizationOrb" THEN [i \in 1..n |-> 0] ELSE <<>>,
     fired |-> {}]

\* AudioSource
SourceNone == [kind |-> "None", path |-> ""]
SourceMic == [kind |-> "Microphone", path |-> ""]
SourceFile(p) == [kind |-> "File", path |-> p]

\* #[derive(Default)] PlaybackInfo
DefaultInfo ==
    [status |-> "Paused", speed |-> 0, position |-> 0, duration |-> 0,
     seek_to |-> None, last_update |-> None, position_at_last_update |-> 0]

\* A reset that leaves the position and a pending seek in place.
ResetKeepsPosition(pi) ==
    [pi EXCEPT !.status = "Paused", !.speed = 1, !.duration = 0, !.last_update = None]

\* PlaybackInfo::reset
Reset(pi) ==
    [pi EXCEPT !.status = "Paused", !.speed = 1, !.position = 0, !.duration = 0,
               !.seek_to = None, !.last_update = None, !.position_at_last_update = 0]

\* #[derive(Default)] AudioAnalysis
DefaultAnalysis ==
    [frequency_bins |-> <<>>, bass |-> 0, mid |-> 0, treble |-> 0,
     treble_average |-> 0, volume |-> 0, flux |-> 0, previous_spectrum |-> <<>>]

\* A stream that has pushed nothing yet.
NewProducer(id) == [id |-> id, lo |-> 0, blocks |-> 0, start |-> 0]

\* source.skip_duration(seek_duration): a producer that starts t into the file.
SeekProducer(id, t) == [NewProducer(id) EXCEPT !.start = t]

\* The state after construction and the choice of a visualizer in the main menu.
InitIn(st) ==
    /\ selected = SourceNone
    /\ selected_changed = TRUE
    /\ sink = [queue |-> None, paused |-> FALSE, speed |-> 1]
    /\ mic_stream = None
    /\ analysis_chan = <<>>
    /\ mic_chan = <<>>
    /\ audio_samples = <<>>
    /\ mic_buffer = <<>>
    /\ audio_info = None
    /\ playback_info = DefaultInfo
    /\ pb_changed = TRUE
    /\ audio_analysis = DefaultAnalysis
    /\ num_bands = 16
    /\ viz_enabled = TRUE
    /\ analysis_timer = 0
    /\ delta = 0
    /\ ran = {}
    /\ window = <<>>
    /\ tick = "idle"
    /\ producers = 0
    /\ commands = 0
    /\ crashed = FALSE
    /\ app_state = [state |-> st, next |-> None]
    /\ visuals = VisualsOnEnter(st, 16)

Init == InitIn("Visualization2D")

\* --------------------------------------------------------------- producers

\* AudioDataTee::next, called by the output thread while the sink plays:
\* k samples pulled, a copy of each sent.
TeeNext(E) ==
    /\ ~crashed
    /\ IsSome(sink.queue)
    /\ ~sink.paused
    /\ Unwrap(sink.queue).blocks < E.blocks
    /\ Len(analysis_chan) < MaxInFlight
    /\ \E k \in E.sizes :
          LET pr == Unwrap(sink.queue)
          IN /\ analysis_chan' = Append(analysis_chan, [p |-> pr.id, lo |-> pr.lo, n |-> k])
             /\ sink' = [sink EXCEPT !.queue = Some([pr EXCEPT !.lo = @ + k, !.blocks = @ + 1])]
    /\ UNCHANGED <<selected, selected_changed, mic_stream, mic_chan, audio_samples,
                   mic_buffer, audio_info, playback_info, pb_changed, audio_analysis,
                   num_bands, viz_enabled, analysis_timer, delta, ran, window, tick,
                   producers, commands, crashed, app_state, visuals>>

\* The input callback of the microphone stream: tx.send(data.to_vec())
MicCallback(E) ==
    /\ ~crashed
    /\ IsSome(mic_stream)
    /\ Unwrap(mic_stream).blocks < E.blocks
    /\ Len(mic_chan) < MaxInFlight
    /\ \E k \in E.sizes :
          LET pr == Unwrap(mic_stream)
          IN /\ mic_chan' = Append(mic_chan, [p |-> pr.id, lo |-> pr.lo, n |-> k])
             /\ mic_stream' = Some([pr EXCEPT !.lo = @ + k, !.blocks = @ + 1])
    /\ UNCHANGED <<selected, selected_changed, sink, analysis_chan, audio_samples,
                   mic_buffer, audio_info, playback_info, pb_changed, audio_analysis,
                   num_bands, viz_enabled, analysis_timer, delta, ran, window, tick,
                   producers, commands, crashed, app_state, visuals>>

\* ----------------------------------------------------------------- drains

CanRun(sys) == ~crashed /\ sys \in ScheduledIn(app_state.state) /\ sys \notin ran

read_mic_data_system ==
    /\ CanRun("read_mic")
    /\ mic_buffer' = RExtend(mic_buffer, mic_chan)
    /\ mic_chan' = <<>>
    /\ ran' = ran \cup {"read_mic"}
    /\ UNCHANGED <<selected, selected_changed, sink, mic_stream, analysis_chan,
                   audio_samples, audio_info, playback_info, pb_changed, audio_analysis,
                   num_bands, viz_enabled, analysis_timer, delta, window, tick, producers,
                   commands, crashed, app_state, visuals>>

\* A drain that receives one message and leaves the rest in the channel.
read_analysis_one_message ==
    /\ CanRun("read_analysis")
    /\ audio_samples' = IF analysis_chan = <<>> THEN audio_samples
                        ELSE RExtend(audio_samples, <<Head(analysis_chan)>>)
    /\ analysis_chan' = IF analysis_chan = <<>> THEN <<>> ELSE Tail(analysis_chan)
    /\ ran' = ran \cup {"read_analysis"}
    /\ UNCHANGED <<selected, selected_changed, sink, mic_stream, mic_chan, mic_buffer,
                   audio_info, playback_info, pb_changed, audio_analysis, num_bands,
                   viz_enabled, analysis_timer, delta, window, tick, producers,
                   commands, crashed, app_state, visuals>>

read_analysis_data_system ==
    /\ CanRun("read_analysis")
    /\ audio_samples' = RExtend(audio_samples, analysis_chan)
    /\ analysis_chan' = <<>>
    /\ ran' = ran \cup {"read_analysis"}
    /\ UNCHANGED <<selected, selected_changed, sink, mic_stream, mic_chan, mic_buffer,
                   audio_info, playback_info, pb_changed, audio_analysis, num_bands,
                   viz_enabled, analysis_timer, delta, window, tick, producers,
                   commands, crashed, app_state, visuals>>

\* ------------------------------------------------------------------- sink

\* Sink::stop: empties the queue.
SinkStop(s) == [s EXCEPT !.queue = None]
\* Sink::clear: empties the queue and pauses.
SinkClear(s) == [s EXCEPT !.queue = None, !.paused = TRUE]
\* Sink::append on an empty queue.
SinkAppend(s, pr) == [s EXCEPT !.queue = Some(pr)]
SinkPlay(s) == [s EXCEPT !.paused = FALSE]
SinkPause(s) == [s EXCEPT !.paused = TRUE]
SinkSetSpeed(s, v) == [s EXCEPT !.speed = v]

\* ------------------------------------------------------- source management

\* The capture stream left in place.
KeepMicStream(ms) == ms

\* *mic_stream = MicStream(None): the stream is dropped.
DropMicStream(ms) == None

\* Outcomes of the fallible calls of the File branch and of the Microphone branch.
FileOutcomes == {"ok", "read_failed", "decode_failed"}
MicOutcomes == {"ok", "no_device", "no_config", "build_failed", "play_failed"}

\* A track that is started only when the probe reported a duration.
FileInfoNeedsDuration(pi, dur) ==
    IF dur = 0 THEN pi
    ELSE [pi EXCEPT !.duration = dur, !.status = "Playing",
                    !.last_update = Some(0), !.position_at_last_update = 0]

\* A track that is marked Playing without an anchor.
FileInfoWithoutAnchor(pi, dur) == [pi EXCEPT !.duration = dur, !.status = "Playing"]

\* "Initialize playback info for the new track."
FileInfo(pi, dur) ==
    [pi EXCEPT !.duration = dur, !.status = "Playing",
               !.last_update = Some(0), !.position_at_last_update = 0]

\* The body of manage_audio_playback for a changed selection.
ManageChanged(E) ==
    /\ audio_samples' = <<>>
    /\ pb_changed' = TRUE
    /\ \/ /\ selected.kind = "File"
          /\ \E dur \in Durations, out \in FileOutcomes, rate \in E.rates :
                IF out = "ok"
                THEN /\ audio_info' = Some(rate)
                     /\ playback_info' = FileInfo(Reset(playback_info), dur)
                     /\ sink' = SinkAppend(SinkStop(sink), NewProducer(producers + 1))
                     /\ mic_stream' = DropMicStream(mic_stream)
                     /\ producers' = producers + 1
                     /\ crashed' = FALSE
                ELSE /\ playback_info' = Reset(playback_info)
                     /\ sink' = SinkStop(sink)
                     /\ mic_stream' = DropMicStream(mic_stream)
                     /\ crashed' = TRUE
                     /\ UNCHANGED <<audio_info, producers>>
       \/ /\ selected.kind = "Microphone"
          /\ \E out \in MicOutcomes, rate \in E.rates :
                IF out = "ok"
                THEN /\ audio_info' = Some(rate)
                     /\ playback_info' = Reset(playback_info)
                     /\ sink' = SinkStop(sink)
                     /\ mic_stream' = Some(NewProducer(producers + 1))
                     /\ producers' = producers + 1
                     /\ crashed' = FALSE
                ELSE /\ playback_info' = Reset(playback_info)
                     /\ sink' = SinkStop(sink)
                     /\ mic_stream' = DropMicStream(mic_stream)
                     /\ crashed' = TRUE
                     /\ UNCHANGED <<audio_info, producers>>
       \/ /\ selected.kind = "None"
          /\ playback_info' = Reset(playback_info)
          /\ sink' = SinkStop(sink)
          /\ mic_stream' = DropMicStream(mic_stream)
          /\ UNCHANGED <<audio_info, producers, crashed>>

\* A source change that also puts AudioAnalysis back to its default.
manage_clears_analysis(E) ==
    /\ CanRun("manage")
    /\ ran' = ran \cup {"manage"}
    /\ selected_changed' = FALSE
    /\ IF selected_changed
       THEN ManageChanged(E) /\ audio_analysis' = DefaultAnalysis
       ELSE UNCHANGED <<audio_samples, pb_changed, audio_info, playback_info, sink,
                        mic_stream, producers, crashed, audio_analysis>>
    /\ UNCHANGED <<selected, analysis_chan, mic_chan, mic_buffer, num_bands,
                   viz_enabled, analysis_timer, delta, window, tick, commands, app_state,
                   visuals>>

manage_audio_playback(E) ==
    /\ CanRun("manage")
    /\ ran' = ran \cup {"manage"}
    /\ selected_changed' = FALSE
    /\ IF selected_changed
       THEN ManageChanged(E)
       ELSE UNCHANGED <<audio_samples, pb_changed, audio_info, playback_info, sink,
                        mic_stream, producers, crashed>>
    /\ UNCHANGED <<selected, analysis_chan, mic_chan, mic_buffer, audio_analysis,
                   num_bands, viz_enabled, analysis_timer, delta, window, tick, commands,
                   app_state, visuals>>

\* ---------------------------------------------------------------- transport

\* The elapsed time added to the position of the previous frame.
AccumulatedPosition(pi, s) == pi.position + Unwrap(pi.last_update) * s.speed

\* position_at_last_update + last_update.elapsed() * sink.speed()
AnchorPosition(pi, s) == pi.position_at_last_update + Unwrap(pi.last_update) * s.speed

\* A resume that restarts the clock on the old base position.
ResumeFromOldBase(pi, s) == <<[pi EXCEPT !.last_update = Some(0)], SinkPlay(s)>>

\* Playing with a paused sink: the sink resumes from a new anchor.
Resume(pi, s) ==
    <<[pi EXCEPT !.last_update = Some(0), !.position_at_last_update = pi.position],
      SinkPlay(s)>>

\* A pause that keeps the position published last.
PauseKeepsPublished(pi, s) == <<[pi EXCEPT !.last_update = None], SinkPause(s)>>

\* Paused with a playing sink: the position is saved and the anchor cleared.
Pause(pi, s) ==
    <<[pi EXCEPT !.position = IF IsSome(pi.last_update) THEN AnchorPosition(pi, s)
                               ELSE pi.position,
                 !.last_update = None],
      SinkPause(s)>>

\* A play/pause part that anchors again on every run while Playing.
ApplyStatusAnchorsAlways(pi, s) ==
    IF pi.status = "Playing" THEN Resume(pi, s)
    ELSE IF ~s.paused THEN Pause(pi, s) ELSE <<pi, s>>

\* Play/pause part of apply_playback_changes: <<playback_info, sink>>.
ApplyStatus(pi, s) ==
    IF pi.status = "Playing"
    THEN IF s.paused THEN Resume(pi, s) ELSE <<pi, s>>
    ELSE IF ~s.paused THEN Pause(pi, s) ELSE <<pi, s>>

\* A speed change that is passed to the sink and leaves the anchor in place.
ApplySpeedWithoutAnchor(pi, s) ==
    IF s.speed # pi.speed THEN <<pi, SinkSetSpeed(s, pi.speed)>> ELSE <<pi, s>>

\* Speed part of apply_playback_changes.
ApplySpeed(pi, s) ==
    IF s.speed # pi.speed
    THEN IF ~s.paused
         THEN LET pos == IF IsSome(pi.last_update) THEN AnchorPosition(pi, s) ELSE pi.position
              IN <<[pi EXCEPT !.position = pos, !.last_update = Some(0),
                              !.position_at_last_update = pos],
                   SinkSetSpeed(s, pi.speed)>>
         ELSE <<pi, SinkSetSpeed(s, pi.speed)>>
    ELSE <<pi, s>>

\* A seek that moves the position and leaves the old anchor in place.
ApplySeekKeepsAnchor(pi, s, target, pr) ==
    <<[pi EXCEPT !.seek_to = None, !.position = target],
      SinkAppend(SinkClear(SinkStop(s)), pr)>>

\* Seek part of apply_playback_changes once the file is decoded again.
ApplySeek(pi, s, target, pr) ==
    LET s1 == SinkAppend(SinkClear(SinkStop(s)), pr)
        pi1 == [pi EXCEPT !.seek_to = None, !.position = target,
                          !.position_at_last_update = target]
    IN IF pi.status = "Playing"
       THEN <<[pi1 EXCEPT !.last_update = Some(0)], SinkPlay(s1)>>
       ELSE <<[pi1 EXCEPT !.last_update = None], SinkPause(s1)>>

apply_playback_changes ==
    /\ CanRun("apply")
    /\ "manage" \in ran
    /\ ran' = ran \cup {"apply"}
    /\ pb_changed' = FALSE
    /\ IF pb_changed
       THEN LET a == ApplyStatus(playback_info, sink)
                b == ApplySpeed(a[1], a[2])
                pi == b[1]
                s == b[2]
            IN IF IsSome(pi.seek_to) /\ selected.kind = "File"
               THEN \E out \in FileOutcomes :
                       IF out = "ok"
                       THEN LET c == ApplySeek(pi, s, Unwrap(pi.seek_to),
                                               SeekProducer(producers + 1,
                                                            Unwrap(pi.seek_to)))
                            IN /\ playback_info' = c[1]
                               /\ sink' = c[2]
                               /\ producers' = producers + 1
                               /\ crashed' = FALSE
                       ELSE /\ playback_info' = [pi EXCEPT !.seek_to = None]
                            /\ sink' = s
                            /\ crashed' = TRUE
                            /\ UNCHANGED producers
               ELSE /\ playback_info' = [pi EXCEPT !.seek_to = None]
                    /\ sink' = s
                    /\ UNCHANGED <<producers, crashed>>
       ELSE UNCHANGED <<playback_info, sink, producers, crashed>>
    /\ UNCHANGED <<selected, selected_changed, mic_stream, analysis_chan, mic_chan,
                   audio_samples, mic_buffer, audio_info, audio_analysis, num_bands,
                   viz_enabled, analysis_timer, delta, window, tick, commands, app_state,
                   visuals>>

\* The end test without the guard on an unknown duration.
FinishedAtAnyDuration(new_pos, duration) == new_pos >= duration

\* An end test that asks for the position to hit the duration exactly.
FinishedOnExactHit(new_pos, duration) == new_pos = duration /\ duration # 0

\* new_pos >= playback_info.duration && playback_info.duration != Duration::ZERO
Finished(new_pos, duration) == new_pos >= duration /\ duration # 0

update_playback_position ==
    /\ CanRun("update")
    /\ "apply" \in ran
    /\ ran' = ran \cup {"update"}
    /\ IF playback_info.status = "Playing" /\ IsSome(playback_info.last_update)
       THEN LET new_pos == AnchorPosition(playback_info, sink)
            IN /\ pb_changed' = TRUE
               /\ IF Finished(new_pos, playback_info.duration)
                  THEN playback_info' = [playback_info EXCEPT
                                            !.position = playback_info.duration,
                                            !.status = "Paused",
                                            !.last_update = None]
                  ELSE playback_info' = [playback_info EXCEPT !.position = new_pos]
       ELSE UNCHANGED <<playback_info, pb_changed>>
    /\ UNCHANGED <<selected, selected_changed, sink, mic_stream, analysis_chan, mic_chan,
                   audio_samples, mic_buffer, audio_info, audio_analysis, num_bands,
                   viz_enabled, analysis_timer, delta, window, tick, producers,
                   commands, crashed, app_state, visuals>>

\* ----------------------------------------------------------------- analyzer

\* The comparison made against half a window.
TooShortHalfWindow(buf) == RLen(buf) < fft_size \div 2

\* if buffer.len() < fft_size { None }
TooShort(buf) == RLen(buf) < fft_size

\* A window of everything the buffer holds.
TakeWholeBuffer(buf) == buf

\* let analysis_vec = buffer.iter().copied().take(fft_size).collect();
TakeWindow(buf) == RTake(buf, fft_size)

\* A drain of half a window, whatever the buffer holds.
DrainHalfWindow(buf) == RDrop(buf, fft_size \div 2)

\* let drain_amount = buffer_len.saturating_sub(fft_size / 2); buffer.drain(..drain_amount);
DrainWindow(buf) == RDrop(buf, Max(0, RLen(buf) - fft_size \div 2))

\* A timer that counts as finished in every frame that took time.
FinishedEveryFrame == delta > 0

\* analysis_timer.0.tick(time.delta()); analysis_timer.0.just_finished()
JustFinished == analysis_timer + delta >= TimerPeriod

\* A selection of None read from the file buffer.
AnalysisBufferOfAnySource ==
    IF selected.kind = "Microphone" THEN (IF TooShort(mic_buffer) THEN None ELSE Some(mic_buffer))
    ELSE (IF TooShort(audio_samples) THEN None ELSE Some(audio_samples))

\* The buffer the selection reads its window from: None when the tick is skipped.
AnalysisBuffer ==
    IF selected.kind = "File" THEN (IF TooShort(audio_samples) THEN None ELSE Some(audio_samples))
    ELSE IF selected.kind = "Microphone" THEN (IF TooShort(mic_buffer) THEN None ELSE Some(mic_buffer))
    ELSE None

\* The tick past its early returns: a window is extracted, then analysed.
TickWithWindow(E) ==
    /\ window' = TakeWindow(Unwrap(AnalysisBuffer))
    /\ IF selected.kind = "File"
       THEN /\ audio_samples' = DrainWindow(audio_samples)
            /\ UNCHANGED mic_buffer
       ELSE /\ mic_buffer' = DrainWindow(mic_buffer)
            /\ UNCHANGED audio_samples
    /\ \E fft_ok \in BOOLEAN, profile \in E.profiles :
          IF fft_ok
          THEN /\ audio_analysis' = Analyse(audio_analysis,
                                            SpectrumOf(Unwrap(audio_info), profile),
                                            VolumeOf(profile), num_bands)
               /\ tick' = "analysed"
               /\ crashed' = FALSE
          ELSE /\ crashed' = TRUE
               /\ tick' = "panicked"
               /\ UNCHANGED audio_analysis

audio_analysis_system(E) ==
    /\ CanRun("analysis")
    /\ {"read_mic", "read_analysis", "manage"} \subseteq ran
    /\ ran' = ran \cup {"analysis"}
    /\ IF viz_enabled
       THEN /\ analysis_timer' = (analysis_timer + delta) % TimerPeriod
            /\ IF JustFinished /\ IsSome(audio_info) /\ IsSome(AnalysisBuffer)
               THEN TickWithWindow(E)
               ELSE /\ tick' = IF JustFinished THEN "skipped" ELSE "idle"
                    /\ UNCHANGED <<window, audio_samples, mic_buffer, audio_analysis,
                                   crashed>>
       ELSE /\ tick' = "idle"
            /\ UNCHANGED <<analysis_timer, window, audio_samples, mic_buffer,
                           audio_analysis, crashed>>
    /\ UNCHANGED <<selected, selected_changed, sink, mic_stream, analysis_chan, mic_chan,
                   audio_info, playback_info, pb_changed, num_bands, viz_enabled, delta,
                   producers, commands, app_state, visuals>>

\* ----------------------------------------------------------------------- ui

\* The controls of the side panel.
Controls ==
    {"microphone", "load_file", "render", "bands", "play_pause", "speed", "seek",
     "visualizer"}

\* The visualizers the user picks among.
Visualizers == {"Visualization2D", "Visualization3D", "VisualizationIco"}

\* The user's input in one run of main_ui_layout, on one of the controls E.controls.
UiInput(E) ==
    \/ UNCHANGED <<selected, selected_changed, playback_info, num_bands, viz_enabled,
                   commands, app_state>>
    \/ /\ commands < E.budget
       /\ commands' = commands + 1
       /\ \/ /\ "microphone" \in E.controls
             /\ selected' = SourceMic
             /\ selected_changed' = TRUE
             /\ UNCHANGED <<playback_info, num_bands, viz_enabled, app_state>>
          \/ /\ "load_file" \in E.controls
             /\ \E p \in Paths : selected' = SourceFile(p)
             /\ selected_changed' = TRUE
             /\ UNCHANGED <<playback_info, num_bands, viz_enabled, app_state>>
          \/ /\ "render" \in E.controls
             /\ viz_enabled' = ~viz_enabled
             /\ UNCHANGED <<selected, selected_changed, playback_info, num_bands,
                            app_state>>
          \/ /\ "bands" \in E.controls
             /\ app_state.state \in {"Visualization2D", "Visualization3D"}
             /\ \E n \in NumBandsChoices : n # num_bands /\ num_bands' = n
             /\ UNCHANGED <<selected, selected_changed, playback_info, viz_enabled,
                            app_state>>
          \/ /\ "play_pause" \in E.controls
             /\ selected.kind = "File"
             /\ playback_info' = [playback_info EXCEPT
                                     !.status = IF @ = "Playing" THEN "Paused" ELSE "Playing"]
             /\ UNCHANGED <<selected, selected_changed, num_bands, viz_enabled,
                            app_state>>
          \/ /\ "speed" \in E.controls
             /\ selected.kind = "File"
             /\ \E v \in Speeds : v # playback_info.speed
                                  /\ playback_info' = [playback_info EXCEPT !.speed = v]
             /\ UNCHANGED <<selected, selected_changed, num_bands, viz_enabled,
                            app_state>>
          \/ /\ "seek" \in E.controls
             /\ selected.kind = "File"
             /\ playback_info.duration > 0
             /\ \E t \in 0..playback_info.duration :
                   playback_info' = [playback_info EXCEPT !.seek_to = Some(t)]
             /\ UNCHANGED <<selected, selected_changed, num_bands, viz_enabled,
                            app_state>>
          \/ /\ "visualizer" \in E.controls
             /\ \E v \in Visualizers :
                   /\ v # app_state.state
                   /\ app_state' = [app_state EXCEPT !.next = Some(v)]
             /\ UNCHANGED <<selected, selected_changed, playback_info, num_bands,
                            viz_enabled>>

main_ui_layout(E) ==
    /\ CanRun("ui")
    /\ ran' = ran \cup {"ui"}
    /\ \E visible \in BOOLEAN :
          IF visible
          THEN /\ UiInput(E)
               /\ pb_changed' = (pb_changed \/ selected'.kind = "File")
               /\ visuals' = [visuals EXCEPT !.config_changed = TRUE]
          ELSE UNCHANGED <<selected, selected_changed, playback_info, num_bands,
                           viz_enabled, commands, pb_changed, app_state, visuals>>
    /\ UNCHANGED <<sink, mic_stream, analysis_chan, mic_chan, audio_samples, mic_buffer,
                   audio_info, audio_analysis, analysis_timer, delta, window, tick,
                   producers, crashed>>

\* ---------------------------------------------------------------- renderers

\* A renderer the specification follows may run: its in_state condition holds, it
\* has not run in this frame and the systems it is ordered after have.
MayDraw(E, sys, before) ==
    /\ ~crashed
    /\ sys \in RenderersIn(app_state.state) \cap E.renderers
    /\ sys \notin visuals.ran
    /\ before \subseteq visuals.ran

\* current + (target - current) * smoothing_factor, the factor in tenths.
Approach(current, target, tenths) == current + ((target - current) * tenths) \div 10

\* manage_bar_chart: rebuilds the bars when the configuration has changed.
manage_bar_chart(E) ==
    /\ MayDraw(E, "manage_bar_chart", {})
    /\ visuals' =
          IF ~viz_enabled THEN [visuals EXCEPT !.ran = @ \cup {"manage_bar_chart"}]
          ELSE [visuals EXCEPT
                   !.ran = @ \cup {"manage_bar_chart"},
                   !.config_changed = FALSE,
                   !.bars = IF visuals.config_changed
                            THEN [i \in 1..num_bands |-> BarHeight] ELSE @]
    /\ UNCHANGED <<selected, selected_changed, sink, mic_stream, analysis_chan, mic_chan,
                   audio_samples, mic_buffer, audio_info, playback_info, pb_changed,
                   audio_analysis, num_bands, viz_enabled, analysis_timer, delta, ran,
                   window, tick, producers, commands, crashed, app_state>>

\* A renderer of bars that draws the bands it finds, whatever their number.
BarsWhateverTheirNumber(bars, bins, n) ==
    [i \in 1..Len(bars) |->
        IF i <= Len(bins) THEN Approach(bars[i], BarHeight + (bins[i] * bass_sensitivity * 100) \div 10, 3) ELSE bars[i]]

\* The bars after update_2d_visuals has seen the bands bins with n bands configured.
DrawBars(bars, bins, n) ==
    IF Len(bins) # n THEN bars
    ELSE [i \in 1..Len(bars) |->
            IF i <= Len(bins) THEN Approach(bars[i], BarHeight + (bins[i] * bass_sensitivity * 100) \div 10, 3) ELSE bars[i]]

\* update_2d_visuals: the height of each bar approaches the level of its band; the
\* position and the colour of the bar follow from the height.
update_2d_visuals(E) ==
    /\ MayDraw(E, "update_2d_visuals", {"manage_bar_chart"})
    /\ visuals' =
          IF ~viz_enabled THEN [visuals EXCEPT !.ran = @ \cup {"update_2d_visuals"}]
          ELSE [visuals EXCEPT
                   !.ran = @ \cup {"update_2d_visuals"},
                   !.bars = DrawBars(@, audio_analysis.frequency_bins, num_bands)]
    /\ UNCHANGED <<selected, selected_changed, sink, mic_stream, analysis_chan, mic_chan,
                   audio_samples, mic_buffer, audio_info, playback_info, pb_changed,
                   audio_analysis, num_bands, viz_enabled, analysis_timer, delta, ran,
                   window, tick, producers, commands, crashed, app_state>>

\* manage_voxel_grid: rebuilds the columns when the band count has changed (the
\* base colour and the column size are not changed in this model; a column is
\* followed by the scale its cubes share).
manage_voxel_grid(E) ==
    /\ MayDraw(E, "manage_voxel_grid", {})
    /\ visuals' =
          IF viz_enabled /\ num_bands # visuals.grid_bands
          THEN [visuals EXCEPT
                   !.ran = @ \cup {"manage_voxel_grid"},
                   !.materials = [i \in 1..num_bands |-> 0],
                   !.cubes = [i \in 1..num_bands |-> UnitScale],
                   !.grid_bands = num_bands]
          ELSE [visuals EXCEPT !.ran = @ \cup {"manage_voxel_grid"}]
    /\ UNCHANGED <<selected, selected_changed, sink, mic_stream, analysis_chan, mic_chan,
                   audio_samples, mic_buffer, audio_info, playback_info, pb_changed,
                   audio_analysis, num_bands, viz_enabled, analysis_timer, delta, ran,
                   window, tick, producers, commands, crashed, app_state>>

\* The column materials after update_column_materials, bloom enabled: the glow
\* is (scale_y - 1.0).max(0.0) * 2.0 with scale_y = 1.0 + amplitude * bass_sensitivity.
DrawMaterials(materials, bins, n) ==
    IF Len(bins) # n THEN materials
    ELSE [i \in 1..Len(materials) |->
            IF i <= n /\ i <= Len(bins) THEN Max((bins[i] * bass_sensitivity * UnitScale) \div 10, 0) * 2
            ELSE materials[i]]

update_column_materials(E) ==
    /\ MayDraw(E, "update_column_materials", {"manage_voxel_grid"})
    /\ visuals' =
          IF ~viz_enabled THEN [visuals EXCEPT !.ran = @ \cup {"update_column_materials"}]
          ELSE [visuals EXCEPT
                   !.ran = @ \cup {"update_column_materials"},
                   !.materials = DrawMaterials(@, audio_analysis.frequency_bins,
                                               num_bands)]
    /\ UNCHANGED <<selected, selected_changed, sink, mic_stream, analysis_chan, mic_chan,
                   audio_samples, mic_buffer, audio_info, playback_info, pb_changed,
                   audio_analysis, num_bands, viz_enabled, analysis_timer, delta, ran,
                   window, tick, producers, commands, crashed, app_state>>

\* The scales of the columns after update_cube_transforms.
DrawCubes(cubes, bins, n) ==
    IF Len(bins) # n THEN cubes
    ELSE [i \in 1..Len(cubes) |->
            IF i <= Len(bins) THEN Approach(cubes[i], UnitScale + (bins[i] * bass_sensitivity * UnitScale) \div 10, 2) ELSE cubes[i]]

\* update_cube_transforms: the scale of each cube approaches the level of its
\* band; with the spread effect the cubes move outwards by
\* 1.0 + (treble_average * 0.1).min(1.5).
update_cube_transforms(E) ==
    /\ MayDraw(E, "update_cube_transforms", {"update_column_materials"})
    /\ visuals' =
          IF ~viz_enabled THEN [visuals EXCEPT !.ran = @ \cup {"update_cube_transforms"}]
          ELSE [visuals EXCEPT
                   !.ran = @ \cup {"update_cube_transforms"},
                   !.cubes = DrawCubes(@, audio_analysis.frequency_bins, num_bands),
                   !.spread = IF Len(audio_analysis.frequency_bins) = num_bands
                                 /\ \E i \in 1..Len(visuals.cubes) : i <= num_bands
                              THEN 10 + Min(audio_analysis.treble_average, 15) ELSE @]
    /\ UNCHANGED <<selected, selected_changed, sink, mic_stream, analysis_chan, mic_chan,
                   audio_samples, mic_buffer, audio_info, playback_info, pb_changed,
                   audio_analysis, num_bands, viz_enabled, analysis_timer, delta, ran,
                   window, tick, producers, commands, crashed, app_state>>

\* timer.tick(time.delta()) of a TimerMode::Once cooldown.
TickCooldown(elapsed, d) == Min(elapsed + d, CooldownTime)

\* The bands spawn_orb_projectiles spawns a projectile for: the level is above
\* the threshold and the cooldown has finished.
Firing(cooldowns, directions, bins, n, threshold) ==
    {i \in 1..n : /\ i <= Len(bins) /\ i <= Len(cooldowns) /\ i <= directions
                  /\ bins[i] > threshold
                  /\ cooldowns[i] = CooldownTime}

\* spawn_orb_projectiles: nothing while the bands published are not the bands
\* configured; otherwise the directions and cooldowns are rebuilt for a new
\* band count, the cooldowns tick, and each band that fires restarts its cooldown.
spawn_orb_projectiles(E) ==
    /\ MayDraw(E, "spawn_orb_projectiles", {})
    /\ \E threshold \in OrbThresholds :
          visuals' =
             IF ~viz_enabled \/ Len(audio_analysis.frequency_bins) # num_bands
             THEN [visuals EXCEPT !.ran = @ \cup {"spawn_orb_projectiles"}]
             ELSE LET rebuilt == num_bands # visuals.directions
                      ticked == [i \in 1..num_bands |->
                                   TickCooldown(IF rebuilt THEN 0 ELSE visuals.cooldowns[i],
                                                delta)]
                      firing == Firing(ticked, num_bands, audio_analysis.frequency_bins,
                                       num_bands, threshold)
                  IN [visuals EXCEPT
                         !.ran = @ \cup {"spawn_orb_projectiles"},
                         !.directions = num_bands,
                         !.cooldowns = [i \in 1..num_bands |->
                                          IF i \in firing THEN 0 ELSE ticked[i]],
                         !.fired = firing]
    /\ UNCHANGED <<selected, selected_changed, sink, mic_stream, analysis_chan, mic_chan,
                   audio_samples, mic_buffer, audio_info, playback_info, pb_changed,
                   audio_analysis, num_bands, viz_enabled, analysis_timer, delta, ran,
                   window, tick, producers, commands, crashed, app_state>>

\* The renderers of the Update schedule.
Draw(E) ==
    \/ manage_bar_chart(E)
    \/ update_2d_visuals(E)
    \/ manage_voxel_grid(E)
    \/ update_column_materials(E)
    \/ update_cube_transforms(E)
    \/ spawn_orb_projectiles(E)

\* -------------------------------------------------------------------- frame

\* The SelectedAudioSource is set to None (spec, section 6: "set source (None/...)").
SelectNone ==
    /\ ~crashed
    /\ commands < MaxCommands
    /\ selected.kind # "None"
    /\ commands' = commands + 1
    /\ selected' = SourceNone
    /\ selected_changed' = TRUE
    /\ UNCHANGED <<sink, mic_stream, analysis_chan, mic_chan, audio_samples, mic_buffer,
                   audio_info, playback_info, pb_changed, audio_analysis, num_bands,
                   viz_enabled, analysis_timer, delta, ran, window, tick, producers,
                   crashed, app_state, visuals>>

\* The Update schedule has run; the next frame starts delta clock units later, and
\* its StateTransition schedule applies the NextState the frame has set.
EndFrame(E) ==
    /\ ~crashed
    /\ ran = ScheduledIn(app_state.state)
    /\ visuals.ran = RenderersIn(app_state.state) \cap E.renderers
    /\ ran' = {}
    /\ IF IsSome(app_state.next)
       THEN /\ app_state' = [state |-> Unwrap(app_state.next), next |-> None]
            /\ visuals' = [VisualsOnEnter(Unwrap(app_state.next), num_bands)
                              EXCEPT !.config_changed = visuals.config_changed]
       ELSE /\ visuals' = [visuals EXCEPT !.ran = {}]
            /\ UNCHANGED app_state
    /\ \E d \in E.deltas :
          /\ delta' = d
          /\ IF IsSome(playback_info.last_update)
             THEN /\ Unwrap(playback_info.last_update) + d <= MaxElapsed
                  /\ playback_info' = [playback_info EXCEPT !.last_update = Some(@[1] + d)]
             ELSE UNCHANGED playback_info
    /\ UNCHANGED <<selected, selected_changed, sink, mic_stream, analysis_chan, mic_chan,
                   audio_samples, mic_buffer, audio_info, pb_changed, audio_analysis,
                   num_bands, viz_enabled, analysis_timer, window, tick, producers,
                   commands, crashed>>

\* What the environment does in a run: the controls the user touches, the sizes
\* of the blocks a producer pushes between two steps of the consumer, the
\* magnitude profiles of the windows, the sample rates of the sources, the frame
\* times (Time::delta) in clock units: 1 is a 120 Hz frame, 2 a 60 Hz frame,
\* the number of commands the user issues, the number of blocks a producer
\* pushes before its stream ends, and the renderers the specification follows.

\* Spec: the user switches sources; blocks of half a window and of a whole window.
WindowEnv ==
    [controls |-> {"microphone", "load_file"}, sizes |-> {2048, 4096},
     profiles |-> {"noise"}, rates |-> {44100}, deltas |-> {2}, budget |-> MaxCommands,
     blocks |-> MaxBlocks,
     renderers |-> {}]

\* SpecFeatures: the user loads a file and moves the band slider; whole windows
\* of silence or of noise.
FeatureEnv ==
    [controls |-> {"load_file", "bands"}, sizes |-> {4096},
     profiles |-> {"silence", "noise"}, rates |-> {44100, 48000}, deltas |-> {2},
     budget |-> MaxCommands, blocks |-> MaxBlocks,
     renderers |-> {}]

\* SpecTransport: the user switches sources and works the transport; the
\* producers stay silent.
TransportEnv ==
    [controls |-> {"microphone", "load_file", "play_pause", "speed", "seek"},
     sizes |-> {}, profiles |-> {}, rates |-> {44100}, deltas |-> {1, 2},
     budget |-> MaxCommands, blocks |-> MaxBlocks,
     renderers |-> {}]

\* SpecPlayback: the user loads a file and works the transport, with one more
\* command than in the other runs (load, then two transport inputs).
PlaybackEnv ==
    [controls |-> {"load_file", "play_pause", "speed", "seek"},
     sizes |-> {}, profiles |-> {}, rates |-> {44100}, deltas |-> {1, 2},
     budget |-> MaxCommands + 1, blocks |-> MaxBlocks,
     renderers |-> {}]

\* SpecTiming: the user loads a file and toggles the analysis; frames of half a
\* timer period and of a whole one, blocks of a whole window.
TimingEnv ==
    [controls |-> {"load_file", "render"}, sizes |-> {4096},
     profiles |-> {"noise"}, rates |-> {44100}, deltas |-> {1, 2},
     budget |-> MaxCommands, blocks |-> MaxBlocks,
     renderers |-> {}]

\* SpecSteady: the user selects the microphone and leaves it; the capture
\* stream delivers window after window of the same steady input.
SteadyEnv ==
    [controls |-> {"microphone"}, sizes |-> {4096}, profiles |-> {"tone"},
     rates |-> {44100}, deltas |-> {2}, budget |-> 1, blocks |-> MaxBlocks + 4,
     renderers |-> {}]

\* SpecSeek: the user loads a file and seeks in it while it is analysed.
SeekEnv ==
    [controls |-> {"load_file", "seek"}, sizes |-> {4096}, profiles |-> {"noise"},
     rates |-> {44100}, deltas |-> {2}, budget |-> MaxCommands, blocks |-> MaxBlocks,
     renderers |-> {}]

\* The systems of the Update schedule.
Frame(E) ==
    \/ read_mic_data_system
    \/ read_analysis_data_system
    \/ manage_audio_playback(E)
    \/ apply_playback_changes
    \/ update_playback_position
    \/ audio_analysis_system(E)
    \/ main_ui_layout(E)
    \/ EndFrame(E)

Next ==
    \/ TeeNext(WindowEnv)
    \/ MicCallback(WindowEnv)
    \/ Frame(WindowEnv)

Spec == Init /\ [][Next]_vars

NextFeatures ==
    \/ TeeNext(FeatureEnv)
    \/ Frame(FeatureEnv)
    \/ SelectNone

SpecFeatures == Init /\ [][NextFeatures]_vars

NextTransport ==
    \/ Frame(TransportEnv)
    \/ SelectNone

SpecTransport == Init /\ [][NextTransport]_vars

NextPlayback == Frame(PlaybackEnv)

SpecPlayback == Init /\ [][NextPlayback]_vars

NextTiming ==
    \/ TeeNext(TimingEnv)
    \/ Frame(TimingEnv)

SpecTiming == Init /\ [][NextTiming]_vars

NextSteady ==
    \/ MicCallback(SteadyEnv)
    \/ Frame(SteadyEnv)

SpecSteady == Init /\ [][NextSteady]_vars

NextSeek ==
    \/ TeeNext(SeekEnv)
    \/ Frame(SeekEnv)

SpecSeek == Init /\ [][NextSeek]_vars

\* SpecIco: the user switches between the visualizers while the microphone is heard.
IcoEnv ==
    [controls |-> {"microphone", "visualizer"}, sizes |-> {4096}, profiles |-> {"noise"},
     rates |-> {44100}, deltas |-> {2}, budget |-> MaxCommands, blocks |-> MaxBlocks,
     renderers |-> {}]

NextIco ==
    \/ MicCallback(IcoEnv)
    \/ Frame(IcoEnv)

SpecIco == Init /\ [][NextIco]_vars

\* SpecBands: the user moves the band slider while the microphone is heard.
BandsEnv ==
    [controls |-> {"microphone", "bands"}, sizes |-> {4096}, profiles |-> {"tone"},
     rates |-> {44100, 48000}, deltas |-> {2}, budget |-> MaxCommands, blocks |-> MaxBlocks,
     renderers |-> {}]

NextBands ==
    \/ MicCallback(BandsEnv)
    \/ Frame(BandsEnv)

SpecBands == Init /\ [][NextBands]_vars

\* SpecDraw: the run starts in the 2D, the 3D or the orb visualizer; the user moves
\* the band slider while the microphone is heard and the renderers draw.
DrawEnv ==
    [controls |-> {"microphone", "bands"}, sizes |-> {4096}, profiles |-> {"noise"},
     rates |-> {44100}, deltas |-> {2}, budget |-> MaxCommands, blocks |-> MaxBlocks - 1,
     renderers |-> Renderers]

InitDraw ==
    \E st \in {"Visualization2D", "Visualization3D", "VisualizationOrb"} : InitIn(st)

NextDraw ==
    \/ MicCallback(DrawEnv)
    \/ Frame(DrawEnv)
    \/ Draw(DrawEnv)

SpecDraw == InitDraw /\ [][NextDraw]_vars

\* The Update schedule runs every system in every frame and the frames follow
\* one another: a step of the schedule that is possible is taken.
SpecPlaybackLive == SpecPlayback /\ WF_vars(NextPlayback)

\* ------------------------------------------------------------------- claims

\* The step in which audio_analysis_system runs, and the one in which its timer
\* fires while the visualisation is enabled.
AnalysisRuns == "analysis" \notin ran /\ "analysis" \in ran'
AnalysisFires == AnalysisRuns /\ viz_enabled /\ analysis_timer + delta >= TimerPeriod

\* The last k samples of a buffer.
RLast(rs, k) == RDrop(rs, RLen(rs) - k)

\* The step in which manage_audio_playback runs.
ManageRuns == "manage" \notin ran /\ "manage" \in ran'

\* The buffer of the active source holds fewer samples than a window, or the
\* selection is None.
ShortOrNone ==
    \/ selected.kind = "None"
    \/ selected.kind = "File" /\ RLen(audio_samples) < fft_size
    \/ selected.kind = "Microphone" /\ RLen(mic_buffer) < fft_size

\* C1: when the analysis timer fires while the buffer of the active source holds
\* fewer than fft_size samples, or while the selection is None, the tick is
\* skipped: no field of AudioAnalysis changes and no sample leaves a buffer.
C1_ShortBufferSkipsTick ==
    [][(AnalysisFires /\ ShortOrNone)
         => /\ audio_analysis' = audio_analysis
            /\ audio_samples' = audio_samples
            /\ mic_buffer' = mic_buffer]_vars

\* A tick was skipped over a buffer that holds samples, after an earlier tick had
\* produced features.
C1_Witness ==
    /\ tick = "skipped"
    /\ selected.kind = "File"
    /\ ~selected_changed
    /\ RLen(audio_samples) > 0
    /\ RLen(audio_samples) < fft_size
    /\ window # <<>>
    /\ audio_analysis.volume > 0

\* C2: when a tick extracts a window from a buffer of L >= fft_size samples, the
\* buffer of the active source holds min(L, fft_size / 2) samples afterwards.
C2_RemainingAfterTick ==
    [][(AnalysisFires /\ IsSome(audio_info) /\ tick' = "analysed")
         => /\ selected.kind = "File"
                => RLen(audio_samples') = Min(RLen(audio_samples), fft_size \div 2)
            /\ selected.kind = "Microphone"
                => RLen(mic_buffer') = Min(RLen(mic_buffer), fft_size \div 2)]_vars

\* A tick has run over a buffer longer than a window: half a window is left, and
\* it does not start where the extracted window ended.
C2_Witness ==
    /\ tick = "analysed"
    /\ selected.kind = "File"
    /\ Len(window) = 1
    /\ Len(audio_samples) = 1
    /\ RLen(audio_samples) = fft_size \div 2
    /\ audio_samples[1].p = window[1].p
    /\ audio_samples[1].lo > window[1].lo + fft_size

\* C3: while the first producer is the only one that was ever started (no
\* teardown has emptied its buffer), the windows of two successive ticks overlap
\* by half: the first fft_size / 2 samples of the later window are the last
\* fft_size / 2 samples of the earlier one.
C3_WindowsOverlapByHalf ==
    [][(AnalysisRuns /\ tick' = "analysed" /\ producers = 1
         /\ Len(window) = 1 /\ Len(window') = 1)
         => RTake(window', fft_size \div 2) = RLast(window, fft_size \div 2)]_vars

\* C4: at most one producer is able to push samples at any time: a playing
\* decoder in the sink and a live capture stream never exist together, a source
\* switch and a seek included.
C4_AtMostOneProducer == ~(IsSome(sink.queue) /\ IsSome(mic_stream))

\* A second producer has been started on the sink and it is the only one alive.
C4_Witness ==
    /\ producers = 2
    /\ selected.kind = "File"
    /\ IsSome(sink.queue)
    /\ Unwrap(sink.queue).id = 2
    /\ mic_stream = None

\* C5: selecting the source that is already active is a no-op: when
\* manage_audio_playback runs with Microphone selected while the capture stream
\* of that selection is alive, the stream and the playback state are kept.
C5_ReselectIsNoOp ==
    [][(ManageRuns /\ selected.kind = "Microphone" /\ IsSome(mic_stream))
         => /\ mic_stream' = mic_stream
            /\ playback_info' = playback_info]_vars

\* C6: when manage_audio_playback processes a changed selection, the playback
\* state is reset before the new source is started: speed 1, position 0, no
\* pending seek, and, unless a file was started, Paused with duration 0 and no
\* anchor; a selection of None is left in exactly that state.
C6_ResetOnSelectionChange ==
    [][(ManageRuns /\ selected_changed)
         => /\ playback_info'.speed = 1
            /\ playback_info'.position = 0
            /\ playback_info'.seek_to = None
            /\ playback_info'.position_at_last_update = 0
            /\ (selected.kind # "File" \/ crashed')
                 => /\ playback_info'.status = "Paused"
                    /\ playback_info'.duration = 0
                    /\ playback_info'.last_update = None]_vars

\* A selection of None has been processed after a source had been started.
C6_Witness ==
    /\ selected.kind = "None"
    /\ ~selected_changed
    /\ producers >= 1
    /\ ~crashed
    /\ playback_info = [status |-> "Paused", speed |-> 1, position |-> 0, duration |-> 0,
                        seek_to |-> None, last_update |-> None,
                        position_at_last_update |-> 0]

\* C7 (as stated): once the selection is None, bass, mid and treble settle
\* toward 0 as ticks continue: every tick that fires under None lowers a
\* feature that is still above 0.
C7_FeaturesDecayUnderNone ==
    [][(AnalysisFires /\ selected.kind = "None" /\ audio_analysis.bass > 0)
         => audio_analysis'.bass < audio_analysis.bass]_vars

\* C7 (amended): while the selection is None every tick is skipped, so bass, mid,
\* treble and every other field of AudioAnalysis keep the values of the last
\* analysed window.
C7_FeaturesFrozenUnderNone ==
    [][selected.kind = "None" => audio_analysis' = audio_analysis]_vars

\* A tick has fired and was skipped under a processed selection of None while
\* the features of an earlier window are above 0.
C7_Witness ==
    /\ selected.kind = "None"
    /\ ~selected_changed
    /\ tick = "skipped"
    /\ audio_analysis.bass > 0
    /\ audio_analysis.mid > 0

\* C8 (as stated): the length of frequency_bins equals num_bands in every
\* reachable state, the initial state included.
C8_BinsLengthAlwaysNumBands == Len(audio_analysis.frequency_bins) = num_bands

\* C8 (amended): the length of frequency_bins equals num_bands at the end of
\* every tick that analysed a window.
C8_BinsLengthAfterTick ==
    [][(AnalysisRuns /\ tick' = "analysed")
         => Len(audio_analysis'.frequency_bins) = num_bands]_vars

\* A window has been analysed after the band slider was moved down.
C8_Witness ==
    /\ tick = "analysed"
    /\ num_bands = 4
    /\ Len(audio_analysis.frequency_bins) = 4
    /\ audio_analysis.volume > 0

\* C9: the tick that resizes frequency_bins to a new num_bands starts every band
\* from 0: each band ends the tick at half the raw value of the window.
C9_ResizedBinsStartFromZero ==
    [][(AnalysisRuns /\ tick' = "analysed"
         /\ Len(audio_analysis.frequency_bins) # num_bands)
         => audio_analysis'.frequency_bins
              = [i \in 1..num_bands |->
                   Half(NewBins(audio_analysis'.previous_spectrum, num_bands)[i])]]_vars

\* C10: a source switch that fails does not crash the process: no run of
\* manage_audio_playback ends in a panic.
C10_FailedSwitchDoesNotCrash == [][ManageRuns => ~crashed']_vars

\* C11: a File selection whose duration probe failed (the probe's fallback is a
\* duration of 0) is still started: whenever manage_audio_playback processes a
\* File selection without a panic of the read or of the decoder, the status is
\* Playing with a fresh anchor, the duration is the probed one or 0, and the
\* new tee is the content of the sink.
C11_ProbeFailureStillPlays ==
    [][(ManageRuns /\ selected_changed /\ selected.kind = "File" /\ ~crashed')
         => /\ playback_info'.status = "Playing"
            /\ playback_info'.last_update = Some(0)
            /\ playback_info'.duration \in Durations
            /\ IsSome(sink'.queue)
            /\ Unwrap(sink'.queue).id = producers + 1
            /\ Unwrap(sink'.queue).blocks = 0]_vars

\* A file has been started with the fallback duration of a failed probe.
C11_Witness ==
    /\ selected.kind = "File"
    /\ ~selected_changed
    /\ "manage" \in ran
    /\ "apply" \notin ran
    /\ playback_info.duration = 0
    /\ playback_info.status = "Playing"
    /\ playback_info.last_update = Some(0)
    /\ IsSome(sink.queue)
    /\ ~crashed

\* C12: a spectrum computation that reports failure aborts the tick and the
\* schedule goes on: no run of audio_analysis_system ends in a panic.
C12_FftFailureDoesNotCrash == [][AnalysisRuns => ~crashed']_vars

\* C13: every window handed to the FFT holds exactly fft_size samples, and they
\* are the first fft_size samples of the buffer of the selected source, in
\* buffer order.
C13_WindowIsFirstFftSize ==
    [][(AnalysisRuns /\ tick' \in {"analysed", "panicked"})
         => /\ RLen(window') = fft_size
            /\ selected.kind \in {"File", "Microphone"}
            /\ selected.kind = "File" => window' = RTake(audio_samples, fft_size)
            /\ selected.kind = "Microphone" => window' = RTake(mic_buffer, fft_size)]_vars

\* A window has been cut out of a microphone buffer that held more than
\* fft_size samples, from a position past the start of the stream.
C13_Witness ==
    /\ tick = "analysed"
    /\ selected.kind = "Microphone"
    /\ RLen(window) = fft_size
    /\ window[1].lo > 0
    /\ Len(mic_buffer) = 1
    /\ mic_buffer[1].lo > window[1].lo + fft_size

\* The step in which apply_playback_changes runs past its early return.
ApplyRuns == "apply" \notin ran /\ "apply" \in ran' /\ pb_changed

\* C14: when apply_playback_changes processes a seek request to T on a File
\* selection (and the file is read and decoded again), position and
\* position_at_last_update are T, the request is cleared, the content of the
\* sink is a new stream that starts at T, and the status is the one it was: with
\* Playing the anchor is fresh and the sink plays, with Paused there is no
\* anchor and the sink is paused.
C14_SeekMovesToTarget ==
    [][(ApplyRuns /\ IsSome(playback_info.seek_to) /\ selected.kind = "File" /\ ~crashed')
         => /\ playback_info'.position = Unwrap(playback_info.seek_to)
            /\ playback_info'.position_at_last_update = Unwrap(playback_info.seek_to)
            /\ playback_info'.seek_to = None
            /\ IsSome(sink'.queue)
            /\ Unwrap(sink'.queue).id = producers + 1
            /\ Unwrap(sink'.queue).start = Unwrap(playback_info.seek_to)
            /\ playback_info'.status = playback_info.status
            /\ playback_info.status = "Playing"
                 => playback_info'.last_update = Some(0) /\ ~sink'.paused
            /\ playback_info.status = "Paused"
                 => playback_info'.last_update = None /\ sink'.paused]_vars

\* A seek to a later position was processed while the playback was paused.
C14_Witness ==
    /\ "apply" \in ran
    /\ selected.kind = "File"
    /\ playback_info.status = "Paused"
    /\ playback_info.position = 2
    /\ playback_info.position_at_last_update = 2
    /\ playback_info.last_update = None
    /\ playback_info.seek_to = None
    /\ IsSome(sink.queue)
    /\ Unwrap(sink.queue).start = 2
    /\ sink.paused

\* The step in which update_playback_position runs.
UpdateRuns == "update" \notin ran /\ "update" \in ran'

\* C15: when update_playback_position runs while the status is Playing with an
\* anchor, no speed change is pending and the end of the track is not reached,
\* the position it publishes is position_at_last_update plus the time elapsed
\* since the anchor times the speed, whatever the position published before.
C15_PositionFromAnchor ==
    [][(UpdateRuns /\ playback_info.status = "Playing" /\ IsSome(playback_info.last_update)
         /\ sink.speed = playback_info.speed
         /\ ~(playback_info.duration # 0
              /\ playback_info.position_at_last_update
                   + Unwrap(playback_info.last_update) * playback_info.speed
                 >= playback_info.duration))
         => /\ playback_info'.position
                 = playback_info.position_at_last_update
                   + Unwrap(playback_info.last_update) * playback_info.speed
            /\ playback_info'.status = "Playing"
            /\ playback_info'.last_update = playback_info.last_update
            /\ playback_info'.position_at_last_update
                 = playback_info.position_at_last_update]_vars

\* A position has been published for the third frame at least after an anchor
\* that was set in the middle of the track, at double speed.
C15_Witness ==
    /\ "update" \in ran
    /\ playback_info.status = "Playing"
    /\ playback_info.speed = 2
    /\ sink.speed = 2
    /\ playback_info.position_at_last_update > 0
    /\ IsSome(playback_info.last_update)
    /\ Unwrap(playback_info.last_update) >= 3
    /\ playback_info.position
         = playback_info.position_at_last_update + 2 * Unwrap(playback_info.last_update)

\* The position update_playback_position computes from the anchor.
ComputedPosition ==
    playback_info.position_at_last_update + Unwrap(playback_info.last_update) * sink.speed

\* C16: when update_playback_position runs while Playing with an anchor and the
\* computed position reaches or exceeds a nonzero duration, the position is the
\* duration, the status becomes Paused and the anchor is cleared; with a
\* duration of 0 the status stays Playing and the anchor stays.
C16_EndOfTrack ==
    [][(UpdateRuns /\ playback_info.status = "Playing" /\ IsSome(playback_info.last_update))
         => /\ (playback_info.duration # 0 /\ ComputedPosition >= playback_info.duration)
                 => /\ playback_info'.position = playback_info.duration
                    /\ playback_info'.status = "Paused"
                    /\ playback_info'.last_update = None
            /\ (playback_info.duration # 0 /\ ComputedPosition < playback_info.duration)
                 => /\ playback_info'.status = "Playing"
                    /\ playback_info'.position < playback_info.duration
            /\ playback_info.duration = 0
                 => /\ playback_info'.status = "Playing"
                    /\ playback_info'.last_update = playback_info.last_update]_vars

\* The track has ended: the computed position had passed the duration and the
\* published position is the duration.
C16_Witness ==
    /\ "update" \in ran
    /\ "ui" \in ran
    /\ commands = 1
    /\ selected.kind = "File"
    /\ playback_info.duration = 3
    /\ playback_info.position = 3
    /\ playback_info.status = "Paused"
    /\ playback_info.last_update = None
    /\ playback_info.position_at_last_update = 0
    /\ ~sink.paused

\* The step in which apply_playback_changes processes a seek request.
SeekRuns == ApplyRuns /\ IsSome(playback_info.seek_to) /\ selected.kind = "File"

\* C17: when apply_playback_changes finds the status Paused while the sink
\* plays from an anchor, the position becomes position_at_last_update plus the
\* elapsed time times the speed of the sink, the sink is paused and the anchor
\* is cleared; and while the status is Paused without an anchor no step but a
\* seek or a source switch changes the position.
C17_PauseFreezesPosition ==
    [][/\ (ApplyRuns /\ ~SeekRuns /\ playback_info.status = "Paused" /\ ~sink.paused
            /\ IsSome(playback_info.last_update))
          => /\ playback_info'.position = ComputedPosition
             /\ playback_info'.status = "Paused"
             /\ playback_info'.last_update = None
             /\ sink'.paused
       /\ (playback_info.status = "Paused" /\ playback_info.last_update = None
            /\ ~SeekRuns /\ ~(ManageRuns /\ selected_changed))
          => playback_info'.position = playback_info.position]_vars

\* A pause was processed in the middle of the track: the position is the one
\* computed from the anchor, past the one published last, and the systems that
\* run after apply_playback_changes have left it.
C17_Witness ==
    /\ ran = Systems
    /\ delta > 0
    /\ selected.kind = "File"
    /\ playback_info.status = "Paused"
    /\ playback_info.last_update = None
    /\ playback_info.duration = 3
    /\ playback_info.position \in {1, 2}
    /\ playback_info.position_at_last_update = 0
    /\ IsSome(sink.queue)
    /\ Unwrap(sink.queue).start = 0
    /\ sink.paused
    /\ ~pb_changed

\* C18: when apply_playback_changes finds the status Playing while the sink is
\* paused, the sink is resumed and the new anchor is (now, position): the
\* position is the one held while paused, so the time spent paused is not
\* counted.
C18_ResumeKeepsPosition ==
    [][(ApplyRuns /\ ~SeekRuns /\ playback_info.status = "Playing" /\ sink.paused)
         => /\ ~sink'.paused
            /\ playback_info'.status = "Playing"
            /\ playback_info'.last_update = Some(0)
            /\ playback_info'.position_at_last_update = playback_info.position
            /\ playback_info'.position = playback_info.position]_vars

\* The playback was paused in the middle of the track and resumed: the anchor
\* is fresh and its base is the position of the pause.
C18_Witness ==
    /\ "apply" \in ran
    /\ commands = 3
    /\ selected.kind = "File"
    /\ playback_info.status = "Playing"
    /\ playback_info.last_update = Some(0)
    /\ playback_info.position_at_last_update = 1
    /\ playback_info.position = 1
    /\ playback_info.speed = 1
    /\ sink.speed = 1
    /\ ~sink.paused
    /\ IsSome(sink.queue)
    /\ Unwrap(sink.queue).start = 0

\* C19: when apply_playback_changes finds a new speed while the sink plays from
\* an anchor, the position becomes the one computed from the anchor with the
\* old speed (never less than the one published last), the new anchor is (now,
\* that position), and the sink gets the new speed.
C19_SpeedChangeKeepsPosition ==
    [][(ApplyRuns /\ ~SeekRuns /\ playback_info.status = "Playing" /\ ~sink.paused
         /\ IsSome(playback_info.last_update) /\ sink.speed # playback_info.speed)
         => /\ playback_info'.position = ComputedPosition
            /\ playback_info'.position >= playback_info.position
            /\ playback_info'.position_at_last_update = ComputedPosition
            /\ playback_info'.last_update = Some(0)
            /\ playback_info'.speed = playback_info.speed
            /\ sink'.speed = playback_info.speed]_vars

\* The speed was doubled while the track played: the new anchor sits at the
\* position reached with the old speed.
C19_Witness ==
    /\ "apply" \in ran
    /\ commands = 2
    /\ selected.kind = "File"
    /\ playback_info.status = "Playing"
    /\ playback_info.speed = 2
    /\ sink.speed = 2
    /\ ~sink.paused
    /\ playback_info.last_update = Some(0)
    /\ playback_info.position_at_last_update = 2
    /\ playback_info.position = 2
    /\ IsSome(sink.queue)
    /\ Unwrap(sink.queue).start = 0

StreamOf(rs, p) ==
    LET FromP(r) == r.p = p
    IN RNorm(SelectSeq(rs, FromP))

\* The samples of producer p in rs are consecutive samples of its stream, in
\* stream order: none missing in between, none twice.
Consecutive(rs, p) == Len(StreamOf(rs, p)) <= 1

\* The samples of the live producer pr in rs end with the last one it pushed.
UpToLastPushed(rs, pr) ==
    StreamOf(rs, pr.id) # <<>>
      => LET r == StreamOf(rs, pr.id)[1] IN r.lo + r.n = pr.lo

\* C21: the samples appended to a buffer are the samples its producer pushed,
\* in push order, none lost and none twice: what the buffer and the channel
\* hold of one producer is a single stretch of consecutive samples of its
\* stream, which ends with the last sample a live producer pushed; a push by
\* the tee or by the capture callback sends exactly the samples the stream
\* advanced by, once, behind what the channel holds.
C21_AppendedEqualsPushed ==
    /\ [](/\ \A p \in 1..producers :
                /\ Consecutive(audio_samples \o analysis_chan, p)
                /\ Consecutive(mic_buffer \o mic_chan, p)
          /\ IsSome(sink.queue)
               => UpToLastPushed(audio_samples \o analysis_chan, Unwrap(sink.queue))
          /\ IsSome(mic_stream)
               => UpToLastPushed(mic_buffer \o mic_chan, Unwrap(mic_stream)))
    /\ [][/\ (IsSome(sink.queue) /\ IsSome(sink'.queue)
               /\ Unwrap(sink'.queue).id = Unwrap(sink.queue).id
               /\ Unwrap(sink'.queue).lo # Unwrap(sink.queue).lo)
             => analysis_chan'
                  = Append(analysis_chan,
                           [p |-> Unwrap(sink.queue).id, lo |-> Unwrap(sink.queue).lo,
                            n |-> Unwrap(sink'.queue).lo - Unwrap(sink.queue).lo])
          /\ (IsSome(mic_stream) /\ IsSome(mic_stream')
               /\ Unwrap(mic_stream').id = Unwrap(mic_stream).id
               /\ Unwrap(mic_stream').lo # Unwrap(mic_stream).lo)
             => mic_chan'
                  = Append(mic_chan,
                           [p |-> Unwrap(mic_stream).id, lo |-> Unwrap(mic_stream).lo,
                            n |-> Unwrap(mic_stream').lo - Unwrap(mic_stream).lo])]_vars

\* The capture stream has pushed three blocks: a tick has cut a window out of
\* the first ones, the buffer holds the rest of them and the last block is
\* still in the channel.
C21_Witness ==
    /\ selected.kind = "Microphone"
    /\ IsSome(mic_stream)
    /\ Unwrap(mic_stream).blocks = 3
    /\ tick = "analysed"
    /\ RLen(mic_buffer) > 0
    /\ Len(mic_chan) = 1
    /\ mic_chan[1].p = Unwrap(mic_stream).id
    /\ mic_chan[1].lo = mic_buffer[Len(mic_buffer)].lo + mic_buffer[Len(mic_buffer)].n

\* C22: AudioAnalysis changes only in the run of audio_analysis_system of a
\* frame in which the analysis timer has just finished, and at most once per
\* frame: once the system has run in a frame, AudioAnalysis and the window stay
\* as they are until the next frame, and a tick consumes one window of fft_size
\* samples however many the buffer holds.
C22_UpdateOnlyWhenTimerFinished ==
    [][/\ audio_analysis' # audio_analysis => AnalysisFires
       /\ window' # window => AnalysisFires
       /\ "analysis" \in ran => audio_analysis' = audio_analysis /\ window' = window
       /\ (AnalysisRuns /\ tick' = "analysed") => RLen(window') = fft_size]_vars

\* The system has run in a frame in which the timer did not finish: the buffer
\* holds more than a window, an earlier tick has produced features, and this
\* frame has left them.
C22_Witness ==
    /\ tick = "idle"
    /\ viz_enabled
    /\ "analysis" \in ran
    /\ analysis_timer = 1
    /\ selected.kind = "File"
    /\ ~selected_changed
    /\ IsSome(audio_info)
    /\ RLen(audio_samples) > fft_size
    /\ window # <<>>
    /\ audio_analysis.volume > 0

\* The lowest-index band (0-based) whose upper edge the frequency c does not
\* exceed; the last band for a frequency above every edge.
LowestBand(c, n) ==
    IF \E b \in 0..(n - 1) : ~ExceedsLimit(c, b, n)
    THEN CHOOSE b \in 0..(n - 1) :
            /\ ~ExceedsLimit(c, b, n)
            /\ \A a \in 0..(b - 1) : ExceedsLimit(c, a, n)
    ELSE n - 1

RECURSIVE SumInBand(_, _, _, _)
\* The magnitudes of the bins i.. of the spectrum whose lowest band is b.
SumInBand(spectrum, i, b, n) ==
    IF i > Len(spectrum) THEN 0
    ELSE (IF LowestBand(spectrum[i][1], n) = b THEN spectrum[i][2] ELSE 0)
         + SumInBand(spectrum, i + 1, b, n)

\* Every bin added to the lowest band whose upper edge it does not exceed.
BandsByEdge(spectrum, n) == [i \in 1..n |-> SumInBand(spectrum, 1, i - 1, n)]

\* C23: the band-mapping scan of a tick adds the magnitude of each bin to the
\* lowest-index band whose upper edge the frequency of the bin does not exceed,
\* bands without a bin included: the bands of the tick are the old ones
\* smoothed with those sums.
C23_BinGoesToLowestBand ==
    [][(AnalysisRuns /\ tick' = "analysed")
         => audio_analysis'.frequency_bins
              = [i \in 1..num_bands |->
                   Smooth(Resize(audio_analysis.frequency_bins, num_bands)[i],
                          BandsByEdge(audio_analysis'.previous_spectrum, num_bands)[i])]]_vars

\* C24: at the end of a tick bass, mid and treble are the sums of three
\* contiguous ranges of the smoothed bands that cover the array exactly: every
\* band is counted once, so bass + mid + treble is the sum of all bands.
C24_BandRangesCoverArray ==
    [][(AnalysisRuns /\ tick' = "analysed")
         => audio_analysis'.bass + audio_analysis'.mid + audio_analysis'.treble
              = SumFrom(audio_analysis'.frequency_bins, 0, num_bands)]_vars

\* The step of a tick that analysed a window.
Analysed == AnalysisRuns /\ tick' = "analysed"

\* C25: on a tick that analyses a window, flux is 0 when no spectrum is
\* retained or when the retained one has another bin count; otherwise it is
\* the root of the summed squared differences to the retained spectrum, which
\* is the one of the last tick that analysed a window: the tick replaces it by
\* its own raw spectrum and no other step touches it.
C25_FluxAgainstPreviousTick ==
    [][/\ Analysed
          => LET prev == audio_analysis.previous_spectrum
                 cur == audio_analysis'.previous_spectrum
             IN /\ \E profile \in Profiles : cur = SpectrumOf(Unwrap(audio_info), profile)
                /\ (prev = <<>> \/ Len(prev) # Len(cur)) => audio_analysis'.flux = 0
                /\ (prev # <<>> /\ Len(prev) = Len(cur))
                     => audio_analysis'.flux = ISqrt(SumSqDiff(cur, prev, 1))
       /\ ~Analysed
          => audio_analysis'.previous_spectrum = audio_analysis.previous_spectrum]_vars

\* A window of noise has been analysed after a window of silence of the same
\* source: the flux is the root of the summed squares of the five magnitudes
\* and the spectrum of the noise is the retained one.
C25_Witness ==
    /\ tick = "analysed"
    /\ audio_info = Some(44100)
    /\ audio_analysis.flux = 8
    /\ audio_analysis.volume > 0
    /\ audio_analysis.previous_spectrum = SpectrumOf(44100, "noise")

\* C26: the first tick that analyses a window after a source change (its
\* window is the first fft_size samples of the stream started last) publishes
\* a flux of 0: the spectrum retained from the source before is not used.
C26_FirstFluxAfterSwitchIsZero ==
    [][(Analysed /\ window' = <<[p |-> producers, lo |-> 0, n |-> fft_size]>>)
         => audio_analysis'.flux = 0]_vars

\* The raw values of the steady input: per band, and above 4 kHz.
SteadyRaw == NewBins(SpectrumOf(44100, "tone"), num_bands)
SteadyTreble == TrebleVal(SpectrumOf(44100, "tone"), 1)

\* The error e2 is half the error e1; an error of an odd number of units of the
\* fixed-point resolution cannot be halved exactly and does not grow.
Halved(e1, e2) ==
    IF e1 % 2 = 0 THEN 2 * e2 = e1
    ELSE (IF e1 < 0 THEN e1 <= e2 /\ e2 <= 0 ELSE 0 <= e2 /\ e2 <= e1)

\* C27: with the same raw value r on every tick, each tick moves a smoothed
\* band s to 0.5 * s + 0.5 * r: the error s - r of every band is halved, band
\* by band from its own old value and its own raw value, and so is the error
\* of treble_average to the raw energy above 4 kHz.
C27_ErrorHalvesEachTick ==
    [][Analysed
         => /\ \A i \in 1..num_bands :
                 Halved(Resize(audio_analysis.frequency_bins, num_bands)[i] - SteadyRaw[i],
                        audio_analysis'.frequency_bins[i] - SteadyRaw[i])
            /\ Halved(audio_analysis.treble_average - SteadyTreble,
                      audio_analysis'.treble_average - SteadyTreble)]_vars

\* Seven ticks after the start from 0 the two bands that hold a partial are
\* within 1% of their raw values (512 and 128) and have not reached them; the
\* bands without energy are still 0.
C27_Witness ==
    /\ tick = "analysed"
    /\ Len(audio_analysis.frequency_bins) = 16
    /\ audio_analysis.frequency_bins[2] = 508
    /\ audio_analysis.frequency_bins[4] = 127
    /\ audio_analysis.frequency_bins[1] = 0
    /\ audio_analysis.treble_average = 127
    /\ 100 * (512 - audio_analysis.frequency_bins[2]) <= 512
    /\ 100 * (128 - audio_analysis.frequency_bins[4]) <= 128

\* The step in which a system of the schedule runs.
Runs(sys) == sys \notin ran /\ sys \in ran'

\* C28: only the analyzer tick writes AudioAnalysis: a source change, a seek
\* and the rest of the transport application, a position update, a drain of
\* either channel, the user interface, a push of a producer and the end of the
\* frame leave every field as it is; a step that changes one is a tick that
\* analysed a window.
C28_OnlyTickWritesAnalysis ==
    [][/\ (\E sys \in Systems \ {"analysis"} : Runs(sys)) => audio_analysis' = audio_analysis
       /\ ran' = ran => audio_analysis' = audio_analysis
       /\ ran' = {} => audio_analysis' = audio_analysis
       /\ audio_analysis' # audio_analysis => Analysed]_vars

\* A seek has been processed (the sink holds a stream that starts at the
\* target) while AudioAnalysis holds the features of an analysed window.
C28_Witness ==
    /\ "apply" \in ran
    /\ "analysis" \notin ran
    /\ producers = 2
    /\ IsSome(sink.queue)
    /\ Unwrap(sink.queue).start = 2
    /\ playback_info.position = 2
    /\ audio_analysis.volume > 0
    /\ audio_analysis.bass > 0
    /\ audio_analysis.previous_spectrum # <<>>

\* The step of a tick that extracted a window.
WindowCut == AnalysisRuns /\ tick' \in {"analysed", "panicked"}

\* C29: once manage_audio_playback has processed a File selection, no window
\* holds a sample of an earlier source: every sample of a window cut from
\* AudioSamples was pushed by the stream started last.
C29_NoSampleOfPreviousSource ==
    [][(WindowCut /\ selected.kind = "File" /\ ~selected_changed)
         => \A i \in 1..Len(window') : window'[i].p = producers]_vars

\* C30: when manage_audio_playback processes a selection of Microphone, the
\* microphone buffer is empty at the end of the switch, whatever an earlier
\* capture stream left in it.
C30_MicBufferEmptiedOnSwitch ==
    [][(ManageRuns /\ selected_changed /\ selected.kind = "Microphone")
         => mic_buffer' = <<>>]_vars

\* C31: when manage_audio_playback has processed a File selection without a
\* panic, the sample rate of the decoder is published, the playback state is
\* Playing at speed 1 and position 0 with the probed duration, no pending seek
\* and the anchor (now, 0), and the new tee is the content of the sink; when
\* the sink is still paused from the source before, the transport application
\* that follows resumes it and anchors again at position 0.
C31_FileStartsPlayingAtZero ==
    [][/\ (ManageRuns /\ selected_changed /\ selected.kind = "File" /\ ~crashed')
          => /\ IsSome(audio_info')
             /\ \E dur \in Durations :
                   playback_info' = [status |-> "Playing", speed |-> 1, position |-> 0,
                                     duration |-> dur, seek_to |-> None,
                                     last_update |-> Some(0),
                                     position_at_last_update |-> 0]
             /\ sink'.queue = Some(NewProducer(producers + 1))
             /\ sink'.paused = sink.paused
       /\ (ApplyRuns /\ ~SeekRuns /\ playback_info.status = "Playing" /\ sink.paused
            /\ playback_info.position = 0 /\ IsSome(sink.queue)
            /\ Unwrap(sink.queue).start = 0)
          => /\ ~sink'.paused
             /\ playback_info'.status = "Playing"
             /\ playback_info'.position = 0
             /\ playback_info'.last_update = Some(0)
             /\ playback_info'.position_at_last_update = 0]_vars

\* A second file has been processed while the sink is still paused from the
\* first one, which the user had paused.
C31_Witness ==
    /\ "manage" \in ran
    /\ "apply" \notin ran
    /\ commands = 3
    /\ producers = 2
    /\ selected.kind = "File"
    /\ ~selected_changed
    /\ sink.paused
    /\ sink.queue = Some(NewProducer(2))
    /\ playback_info.status = "Playing"
    /\ playback_info.last_update = Some(0)
    /\ playback_info.position = 0
    /\ playback_info.duration = 3

\* No pause, resume, speed change or seek is pending: the sink is in the state
\* the status asks for, it has the speed asked for, and no seek is requested.
NoDiscontinuity ==
    /\ (playback_info.status = "Playing") = ~sink.paused
    /\ sink.speed = playback_info.speed
    /\ playback_info.seek_to = None

\* C32: the anchor is derived again on a discontinuity only: a run of
\* apply_playback_changes that finds no pause, resume, speed change or seek to
\* apply leaves last_update, position_at_last_update and the position as they
\* are, although it runs in every frame in which the position was updated.
C32_AnchorKeptWithoutDiscontinuity ==
    [][(("apply" \notin ran /\ "apply" \in ran') /\ NoDiscontinuity)
         => /\ playback_info'.last_update = playback_info.last_update
            /\ playback_info'.position_at_last_update
                 = playback_info.position_at_last_update
            /\ playback_info'.position = playback_info.position
            /\ sink' = sink]_vars

\* apply_playback_changes has run, past its early return, in the second frame
\* after an anchor that was set in the middle of the track: the anchor has
\* aged and its base is the one it was set with.
C32_Witness ==
    /\ "apply" \in ran
    /\ "update" \notin ran
    /\ ~pb_changed
    /\ playback_info.status = "Playing"
    /\ ~sink.paused
    /\ sink.speed = playback_info.speed
    /\ playback_info.last_update = Some(2)
    /\ playback_info.position_at_last_update = 1
    /\ playback_info.position = 2
    /\ playback_info.speed = 1

\* The user has issued the last command and every command is processed: no
\* selection and no seek is waiting.
NoFurtherCommands ==
    /\ commands = PlaybackEnv.budget
    /\ ~selected_changed
    /\ playback_info.seek_to = None
    /\ ~crashed

\* The anchor is young enough for the clock to run one more frame of the
\* longest frame time (the clock stops when an anchor would age past
\* MaxElapsed).
ClockRuns == Unwrap(playback_info.last_update) + 2 <= MaxElapsed

C34_PositionWithinDuration ==
    playback_info.duration # 0 => playback_info.position <= playback_info.duration

\* C35: at the end of every run of apply_playback_changes a status of Playing
\* comes with an anchor (last_update is set), so that the position advances at
\* the next update.
C35_PlayingHasAnchorAfterApply ==
    [][(Runs("apply") /\ ~crashed' /\ playback_info'.status = "Playing")
         => IsSome(playback_info'.last_update)]_vars


\* ---------------------------------------------------------------------- C36

\* The visualization states in which the side panel is drawn and a renderer reads
\* AudioAnalysis.
VisualizationStates ==
    {"Visualization2D", "Visualization3D", "VisualizationOrb", "VisualizationDisc",
     "VisualizationIco"}

\* The frame ends: the Update schedule has run what it runs in this state.
FrameEnds == ran # {} /\ ran' = {}

\* C36: in every one of the five visualization states, the drains, the source
\* management, the transport application, the position update and the analysis
\* have all run when a frame ends.
C36_AudioSystemsRunInEveryVisualization ==
    [][(FrameEnds /\ app_state.state \in VisualizationStates) => Systems \subseteq ran]_vars


\* ---------------------------------------------------------------------- C37

\* Band counts the scan is run with, the values of the slider among them.
ScanBandCounts == 1..5 \cup NumBandsChoices \cup {16}

RECURSIVE SumOfMagnitudes(_, _)
\* The magnitudes of the bins i.. of the spectrum.
SumOfMagnitudes(spectrum, i) ==
    IF i > Len(spectrum) THEN 0 ELSE spectrum[i][2] + SumOfMagnitudes(spectrum, i + 1)

RECURSIVE SumScannedInto(_, _, _, _)
\* The magnitudes of the bins i.. of the spectrum the scan had band b for.
SumScannedInto(spectrum, bands, i, b) ==
    IF i > Len(spectrum) THEN 0
    ELSE (IF bands[i] = b THEN spectrum[i][2] ELSE 0)
         + SumScannedInto(spectrum, bands, i + 1, b)

\* The scan of a spectrum into n bands: the band index starts at 0, never
\* decreases and stays below n; each band holds the bins scanned with its index
\* and the bands together hold the whole spectrum.
ScanKeepsEveryBin(spectrum, n) ==
    LET raw == NewBins(spectrum, n)
        bands == CurrentBands(spectrum, 1, 0, n)
    IN /\ Len(bands) = Len(spectrum)
       /\ \A i \in 1..Len(bands) :
             /\ bands[i] \in 0..(n - 1)
             /\ (IF i = 1 THEN 0 ELSE bands[i - 1]) <= bands[i]
       /\ Len(raw) = n
       /\ \A b \in 0..(n - 1) : raw[b + 1] = SumScannedInto(spectrum, bands, 1, b)
       /\ SumFrom(raw, 0, n) = SumOfMagnitudes(spectrum, 1)

\* C37: for the spectrum of every tick that analyses a window and every band
\* count from 1 on, the band index of the scan is non-decreasing and within
\* [0, n - 1], every bin is added to exactly one band, and the raw bands sum to
\* the magnitudes of the spectrum; the published bands are the old ones smoothed
\* with the raw bands of the configured count.
C37_ScanAddsEveryBinOnce ==
    [][Analysed
         => LET spectrum == audio_analysis'.previous_spectrum
            IN /\ \A n \in ScanBandCounts : ScanKeepsEveryBin(spectrum, n)
               /\ audio_analysis'.frequency_bins
                    = [i \in 1..num_bands |->
                         Smooth(Resize(audio_analysis.frequency_bins, num_bands)[i],
                                NewBins(spectrum, num_bands)[i])]]_vars

\* A tick has scanned a spectrum with energy into more bins than bands: the
\* index has moved up to the last band and several bins share a band.
C37_Witness ==
    /\ tick = "analysed"
    /\ SumOfMagnitudes(audio_analysis.previous_spectrum, 1) > 0
    /\ Len(audio_analysis.previous_spectrum) > num_bands
    /\ CurrentBands(audio_analysis.previous_spectrum, 1, 0, num_bands)
          [Len(audio_analysis.previous_spectrum)] = num_bands - 1


\* ---------------------------------------------------------------------- C38

\* The renderer updates that read one band per element.
BandDriven ==
    {"update_2d_visuals", "update_column_materials", "update_cube_transforms",
     "spawn_orb_projectiles"}

\* The step is a run of the renderer sys.
DrawRuns(sys) == sys \notin visuals.ran /\ sys \in visuals'.ran

\* C38: a run of a band-driven renderer update (2D bars, 3D column materials,
\* 3D cube transforms, orb projectiles) that finds a published band array whose
\* length is not the configured band count changes no bar, material, cube,
\* cooldown or projectile, and does not panic on an index.
C38_RendererSkipsOnLengthMismatch ==
    [][\A sys \in BandDriven :
          (DrawRuns(sys) /\ Len(audio_analysis.frequency_bins) # num_bands)
             => /\ visuals' = [visuals EXCEPT !.ran = @ \cup {sys}]
                /\ crashed' = crashed]_vars

\* The band slider was moved after a tick had published levels: in the next
\* frame update_2d_visuals has run before the analysis, on bars rebuilt for the
\* new count and bands of the old one, and the bars are as they were spawned.
C38_Witness ==
    /\ "update_2d_visuals" \in visuals.ran
    /\ ran \cap {"analysis", "ui"} = {}
    /\ viz_enabled
    /\ Len(audio_analysis.frequency_bins) \notin {0, num_bands}
    /\ \E i \in 1..Min(num_bands, Len(audio_analysis.frequency_bins)) :
          audio_analysis.frequency_bins[i] > 0
    /\ visuals.bars = [i \in 1..num_bands |-> BarHeight]

====
